---- MODULE Spec2Model ----
(***************************************************************************)
(* dotenvk: an editor for .env files.  Text is modelled as a sequence of   *)
(* one-character strings; the operators below follow src/src/lib.rs and    *)
(* src/src/main.rs function by function.                                   *)
(***************************************************************************)
EXTENDS Integers, Sequences, FiniteSets, TLC

\* ------------------------------------------------------------------ characters

DQ == "\""
SQ == "'"
BS == "\\"
NL == "\n"
CR == "\r"
TAB == "\t"
\* the backtick, which a TLA+ string literal cannot hold
BT == "backtick"

\* char::is_whitespace over the characters the model uses
IsWhitespace(c) == c \in {" ", TAB, NL, CR}

\* ------------------------------------------------------------------ str helpers

RECURSIVE SkipWs(_, _)
SkipWs(s, i) ==
    IF i <= Len(s) /\ IsWhitespace(s[i]) THEN SkipWs(s, i + 1) ELSE i

RECURSIVE SkipWsBack(_, _)
SkipWsBack(s, j) ==
    IF j >= 1 /\ IsWhitespace(s[j]) THEN SkipWsBack(s, j - 1) ELSE j

\* str::trim_start
TrimStart(s) == SubSeq(s, SkipWs(s, 1), Len(s))

\* str::trim_end
TrimEnd(s) == SubSeq(s, 1, SkipWsBack(s, Len(s)))

\* str::trim
Trim(s) == TrimEnd(TrimStart(s))

\* str::find(char): the index of the first occurrence, 0 when there is none
RECURSIVE FindFrom(_, _, _)
FindFrom(s, c, i) ==
    IF i > Len(s) THEN 0
    ELSE IF s[i] = c THEN i
    ELSE FindFrom(s, c, i + 1)

Find(s, c) == FindFrom(s, c, 1)

Contains(s, c) == \E i \in 1..Len(s) : s[i] = c

StartsWith(s, c) == Len(s) >= 1 /\ s[1] = c

\* str::lines: split at "\n"; a line that ended in "\n" also loses one "\r"
\* before it; a last line without "\n" is kept as it is; no line after a
\* final "\n".
StripCr(l) ==
    IF Len(l) >= 1 /\ l[Len(l)] = CR THEN SubSeq(l, 1, Len(l) - 1) ELSE l

RECURSIVE LinesFrom(_, _)
LinesFrom(s, start) ==
    IF start > Len(s) THEN << >>
    ELSE LET nl == FindFrom(s, NL, start) IN
         IF nl = 0 THEN << SubSeq(s, start, Len(s)) >>
         ELSE << StripCr(SubSeq(s, start, nl - 1)) >> \o LinesFrom(s, nl + 1)

Lines(s) == LinesFrom(s, 1)

\* ------------------------------------------------------------------ EnvLine

KeyValue(k, v) == [kind |-> "KeyValue", key |-> k, value |-> v]
Comment(raw)   == [kind |-> "Comment", key |-> << >>, value |-> raw]
Empty(raw)     == [kind |-> "Empty", key |-> << >>, value |-> raw]

IsKeyValue(line) == line.kind = "KeyValue"

\* ------------------------------------------------------------------ Value Decoder

\* the match of parse_double_quoted on the character after a backslash
\* Unescape dropping the backslash of an escape it does not know
UnescapeDropsBackslash(ch) ==
    CASE ch = "n" -> << NL >>
      [] ch = "r" -> << CR >>
      [] ch = "t" -> << TAB >>
      [] OTHER    -> << ch >>

Unescape(ch) ==
    CASE ch = "n" -> << NL >>
      [] ch = "r" -> << CR >>
      [] ch = "t" -> << TAB >>
      [] ch = BS  -> << BS >>
      [] ch = DQ  -> << DQ >>
      [] ch = SQ  -> << SQ >>
      [] OTHER    -> << BS, ch >>

RECURSIVE DoubleQuotedScan(_, _, _, _)
DoubleQuotedScan(s, i, escaped, result) ==
    IF i > Len(s) THEN result
    ELSE IF escaped THEN DoubleQuotedScan(s, i + 1, FALSE, result \o Unescape(s[i]))
    ELSE IF s[i] = BS THEN DoubleQuotedScan(s, i + 1, TRUE, result)
    ELSE IF s[i] = DQ THEN result
    ELSE DoubleQuotedScan(s, i + 1, FALSE, Append(result, s[i]))

parse_double_quoted(s) == DoubleQuotedScan(s, 2, FALSE, << >>)

\* parse_single_quoted reading up to the last quote of the text
parse_single_quoted_to_last(s) ==
    LET quotes == {i \in 2..Len(s) : s[i] = SQ} IN
    IF quotes = {} THEN SubSeq(s, 2, Len(s))
    ELSE SubSeq(s, 2, (CHOOSE i \in quotes : \A j \in quotes : j <= i) - 1)

\* parse_single_quoted failing on a value whose quote is not closed
parse_single_quoted_strict(s) ==
    LET close == FindFrom(s, SQ, 2) IN
    IF close = 0 THEN << "unterminated quote" >> ELSE SubSeq(s, 2, close - 1)

parse_single_quoted(s) ==
    LET close == FindFrom(s, SQ, 2) IN
    IF close = 0 THEN SubSeq(s, 2, Len(s)) ELSE SubSeq(s, 2, close - 1)

\* parse_unquoted letting a backslash keep the "#" after it in the value
parse_unquoted_escaped_hash(s) ==
    LET hashes == {i \in 1..Len(s) : s[i] = "#" /\ (i = 1 \/ s[i - 1] # BS)} IN
    TrimEnd(IF hashes = {} THEN s
            ELSE SubSeq(s, 1, (CHOOSE i \in hashes : \A j \in hashes : i <= j) - 1))

parse_unquoted(s) ==
    LET hash == Find(s, "#") IN
    TrimEnd(IF hash = 0 THEN s ELSE SubSeq(s, 1, hash - 1))

\* parse_value cutting the raw value at its first "#" before it looks for quotes
parse_value_cuts_comment_first(raw) ==
    LET hash == Find(raw, "#")
        trimmed == TrimStart(IF hash = 0 THEN raw ELSE SubSeq(raw, 1, hash - 1))
    IN
    IF trimmed = << >> THEN << >>
    ELSE IF StartsWith(trimmed, DQ) THEN parse_double_quoted(trimmed)
    ELSE IF StartsWith(trimmed, SQ) THEN parse_single_quoted(trimmed)
    ELSE parse_unquoted(trimmed)

parse_value(raw) ==
    LET trimmed == TrimStart(raw) IN
    IF trimmed = << >> THEN << >>
    ELSE IF StartsWith(trimmed, DQ) THEN parse_double_quoted(trimmed)
    ELSE IF StartsWith(trimmed, SQ) THEN parse_single_quoted(trimmed)
    ELSE parse_unquoted(trimmed)

\* ------------------------------------------------------------------ Line Classifier

\* ClassifyLine looking for "=" before it looks for "#"
ClassifyLineAssignmentFirst(line) ==
    IF Trim(line) = << >> THEN Empty(line)
    ELSE LET eq_pos == Find(line, "=") IN
         IF eq_pos # 0
         THEN KeyValue(Trim(SubSeq(line, 1, eq_pos - 1)),
                       parse_value(SubSeq(line, eq_pos + 1, Len(line))))
         ELSE Comment(line)

ClassifyLine(line) ==
    IF Trim(line) = << >> THEN Empty(line)
    ELSE IF StartsWith(TrimStart(line), "#") THEN Comment(line)
    ELSE LET eq_pos == Find(line, "=") IN
         IF eq_pos # 0
         THEN KeyValue(Trim(SubSeq(line, 1, eq_pos - 1)),
                       parse_value(SubSeq(line, eq_pos + 1, Len(line))))
         ELSE Comment(line)

parse_env_file(content) ==
    LET ls == Lines(content) IN [i \in 1..Len(ls) |-> ClassifyLine(ls[i])]

\* ------------------------------------------------------------------ Line Serializer

\* RenderLine putting the value of a KeyValue line in double quotes
RenderLineQuoted(line) ==
    IF IsKeyValue(line) THEN line.key \o << "=", DQ >> \o line.value \o << DQ >>
    ELSE line.value

RenderLine(line) ==
    IF IsKeyValue(line) THEN line.key \o << "=" >> \o line.value ELSE line.value

RECURSIVE Join(_, _)
Join(strs, sep) ==
    IF strs = << >> THEN << >>
    ELSE IF Len(strs) = 1 THEN strs[1]
    ELSE strs[1] \o sep \o Join(Tail(strs), sep)

write_env_file(lines) ==
    LET content == Join([i \in 1..Len(lines) |-> RenderLine(lines[i])], << NL >>) IN
    IF content = << >> THEN content ELSE content \o << NL >>

\* ------------------------------------------------------------------ Key/Value Editor

\* Result<()>: Ok(()), or the error and the text its message carries
Ok == [ok |-> TRUE, error |-> "none", text |-> << >>]
\* anyhow!("Invalid key=value pair: {}", pair)
InvalidPair(pair) == [ok |-> FALSE, error |-> "InvalidPair", text |-> pair]

\* the index of the first KeyValue line with this key, 0 when there is none
RECURSIVE FirstMatch(_, _, _)
FirstMatch(lines, key, i) ==
    IF i > Len(lines) THEN 0
    ELSE IF IsKeyValue(lines[i]) /\ lines[i].key = key THEN i
    ELSE FirstMatch(lines, key, i + 1)

\* SetOne looking the key up as it is given, blanks included
SetOneUntrimmedLookup(lines, pair) ==
    LET eq_pos == Find(pair, "=")
        key    == Trim(SubSeq(pair, 1, eq_pos - 1))
        value  == SubSeq(pair, eq_pos + 1, Len(pair))
        found  == FirstMatch(lines, SubSeq(pair, 1, eq_pos - 1), 1)
    IN  IF found # 0
        THEN [lines EXCEPT ![found] = KeyValue(key, value)]
        ELSE Append(lines, KeyValue(key, value))

\* SetOne putting the line of a new key first
SetOnePrepends(lines, pair) ==
    LET eq_pos == Find(pair, "=")
        key    == Trim(SubSeq(pair, 1, eq_pos - 1))
        value  == SubSeq(pair, eq_pos + 1, Len(pair))
        found  == FirstMatch(lines, key, 1)
    IN  IF found # 0
        THEN [lines EXCEPT ![found] = KeyValue(key, value)]
        ELSE << KeyValue(key, value) >> \o lines

\* SetOne without the break: every line with the key is updated
SetOneUpdatesAll(lines, pair) ==
    LET eq_pos == Find(pair, "=")
        key    == Trim(SubSeq(pair, 1, eq_pos - 1))
        value  == SubSeq(pair, eq_pos + 1, Len(pair))
    IN  IF FirstMatch(lines, key, 1) # 0
        THEN [i \in 1..Len(lines) |->
                 IF IsKeyValue(lines[i]) /\ lines[i].key = key
                 THEN KeyValue(key, value) ELSE lines[i]]
        ELSE Append(lines, KeyValue(key, value))

\* the body of the loop of set_env_vars for one well-formed pair
SetOne(lines, pair) ==
    LET eq_pos == Find(pair, "=")
        key    == Trim(SubSeq(pair, 1, eq_pos - 1))
        value  == SubSeq(pair, eq_pos + 1, Len(pair))
        found  == FirstMatch(lines, key, 1)
    IN  IF found # 0
        THEN [lines EXCEPT ![found] = KeyValue(key, value)]
        ELSE Append(lines, KeyValue(key, value))

\* set_env_vars checking every pair before it applies any
RECURSIVE ApplyPairs(_, _)
ApplyPairs(lines, pairs) ==
    IF pairs = << >> THEN lines
    ELSE ApplyPairs(SetOne(lines, pairs[1]), Tail(pairs))

set_env_vars_validates_first(lines, pairs) ==
    IF \E i \in 1..Len(pairs) : Find(pairs[i], "=") = 0
    THEN [lines |-> lines,
          ret |-> InvalidPair(pairs[CHOOSE i \in 1..Len(pairs) :
                                      /\ Find(pairs[i], "=") = 0
                                      /\ \A j \in 1..(i - 1) : Find(pairs[j], "=") # 0])]
    ELSE [lines |-> ApplyPairs(lines, pairs), ret |-> Ok]

\* set_env_vars: the lines as the call leaves them, and what it returns
RECURSIVE set_env_vars(_, _)
set_env_vars(lines, pairs) ==
    IF pairs = << >> THEN [lines |-> lines, ret |-> Ok]
    ELSE IF Find(pairs[1], "=") = 0
         THEN [lines |-> lines, ret |-> InvalidPair(pairs[1])]
         ELSE set_env_vars(SetOne(lines, pairs[1]), Tail(pairs))

SeqContains(seq, x) == \E i \in 1..Len(seq) : seq[i] = x

\* the predicate of retain in unset_env_vars
Retained(line, keys) ==
    IF IsKeyValue(line) THEN ~SeqContains(keys, line.key) ELSE TRUE

\* unset_env_vars removing only the first line of each key
unset_env_vars_first_only(lines, keys) ==
    LET firstOfKey(i) == \A j \in 1..(i - 1) : ~(IsKeyValue(lines[j]) /\ lines[j].key = lines[i].key)
        kept == {i \in 1..Len(lines) : Retained(lines[i], keys) \/ ~firstOfKey(i)}
        nth(k) == CHOOSE i \in kept : Cardinality({j \in kept : j <= i}) = k
    IN  [k \in 1..Cardinality(kept) |-> lines[nth(k)]]

unset_env_vars(lines, keys) == SelectSeq(lines, LAMBDA line : Retained(line, keys))

\* HashMap::insert
\* an insert that keeps the value a key already has
MapInsertKeepsFirst(map, k, v) ==
    [x \in (DOMAIN map) \cup {k} |-> IF x \in DOMAIN map THEN map[x] ELSE v]

MapInsert(map, k, v) ==
    [x \in (DOMAIN map) \cup {k} |-> IF x = k THEN v ELSE map[x]]

EmptyMap == [x \in {} |-> << >>]

\* get_env_vars: collect() inserts the (key, value) of the KeyValue lines in order
RECURSIVE CollectMap(_, _, _)
CollectMap(lines, i, map) ==
    IF i > Len(lines) THEN map
    ELSE IF IsKeyValue(lines[i])
         THEN CollectMap(lines, i + 1, MapInsert(map, lines[i].key, lines[i].value))
         ELSE CollectMap(lines, i + 1, map)

get_env_vars(lines) == CollectMap(lines, 1, EmptyMap)

\* get_env_keys listing each key once
get_env_keys_distinct(lines) ==
    LET first == {i \in 1..Len(lines) :
                    /\ IsKeyValue(lines[i])
                    /\ \A j \in 1..(i - 1) : ~(IsKeyValue(lines[j]) /\ lines[j].key = lines[i].key)}
        nth(k) == CHOOSE i \in first : Cardinality({j \in first : j <= i}) = k
    IN  [k \in 1..Cardinality(first) |-> lines[nth(k)].key]

get_env_keys(lines) ==
    LET kvs == SelectSeq(lines, IsKeyValue) IN [i \in 1..Len(kvs) |-> kvs[i].key]

\* ------------------------------------------------------------------ Shell Escaper

TriggerSet ==
    {" ", TAB, NL, CR, DQ, SQ, "$", BT, BS, "!", "*", "?", "[", "]",
     "{", "}", "(", ")", "<", ">", "&", "|", ";", "#"}

\* needs_escaping with the single quote left out of the matched characters
needs_escaping_without_quote(value) ==
    \E i \in 1..Len(value) : value[i] \in TriggerSet \ {SQ}

\* needs_escaping with "#" left out of the matched characters
needs_escaping_without_hash(value) ==
    \E i \in 1..Len(value) : value[i] \in TriggerSet \ {"#"}

needs_escaping(value) == \E i \in 1..Len(value) : value[i] \in TriggerSet

\* EscapeChar with one more arm, for the comment sign
EscapeCharEscapesHash(ch) ==
    CASE ch = DQ  -> << BS, DQ >>
      [] ch = BS  -> << BS, BS >>
      [] ch = "$" -> << BS, "$" >>
      [] ch = BT  -> << BS, BT >>
      [] ch = "!" -> << BS, "!" >>
      [] ch = "#" -> << BS, "#" >>
      [] ch = NL  -> << BS, "n" >>
      [] ch = CR  -> << BS, "r" >>
      [] ch = TAB -> << BS, "t" >>
      [] OTHER    -> << ch >>

\* EscapeChar without its arm for the backslash
EscapeCharKeepsBackslash(ch) ==
    CASE ch = DQ  -> << BS, DQ >>
      [] ch = "$" -> << BS, "$" >>
      [] ch = BT  -> << BS, BT >>
      [] ch = "!" -> << BS, "!" >>
      [] ch = NL  -> << BS, "n" >>
      [] ch = CR  -> << BS, "r" >>
      [] ch = TAB -> << BS, "t" >>
      [] OTHER    -> << ch >>

\* the match of shell_escape on one character
EscapeChar(ch) ==
    CASE ch = DQ  -> << BS, DQ >>
      [] ch = BS  -> << BS, BS >>
      [] ch = "$" -> << BS, "$" >>
      [] ch = BT  -> << BS, BT >>
      [] ch = "!" -> << BS, "!" >>
      [] ch = NL  -> << BS, "n" >>
      [] ch = CR  -> << BS, "r" >>
      [] ch = TAB -> << BS, "t" >>
      [] OTHER    -> << ch >>

RECURSIVE EscapeBody(_)
EscapeBody(value) ==
    IF value = << >> THEN << >>
    ELSE EscapeChar(Head(value)) \o EscapeBody(Tail(value))

shell_escape(value) ==
    IF ~needs_escaping(value) THEN value
    ELSE << DQ >> \o EscapeBody(value) \o << DQ >>

\* ------------------------------------------------------------------ export

Upper == << "A", "B", "C", "D", "E", "F", "G", "H", "I", "J", "K", "L", "M",
            "N", "O", "P", "Q", "R", "S", "T", "U", "V", "W", "X", "Y", "Z" >>
Lower == << "a", "b", "c", "d", "e", "f", "g", "h", "i", "j", "k", "l", "m",
            "n", "o", "p", "q", "r", "s", "t", "u", "v", "w", "x", "y", "z" >>

LowerChar(c) ==
    IF \E i \in 1..Len(Upper) : Upper[i] = c
    THEN Lower[CHOOSE i \in 1..Len(Upper) : Upper[i] = c]
    ELSE c

\* a comparison of the format as given, with no case folding
to_lowercase_skipped(s) == s

\* str::to_lowercase
to_lowercase(s) == [i \in 1..Len(s) |-> LowerChar(s[i])]

FormatBash == << "b", "a", "s", "h" >>
FormatJson == << "j", "s", "o", "n" >>

\* the orders in which a HashMap with these keys may be iterated
RECURSIVE Orderings(_)
Orderings(S) ==
    IF S = {} THEN {<< >>}
    ELSE UNION {{<< x >> \o rest : rest \in Orderings(S \ {x})} : x \in S}

\* println!("export {key}={}", shell_escape(&value))
ExportLine(key, value) ==
    << "e", "x", "p", "o", "r", "t", " " >> \o key \o << "=" >> \o shell_escape(value)

BashExport(env_vars, order) ==
    [i \in 1..Len(order) |-> ExportLine(order[i], env_vars[order[i]])]

\* serde_json's string escaping, over the characters the model uses
JsonChar(ch) ==
    CASE ch = DQ  -> << BS, DQ >>
      [] ch = BS  -> << BS, BS >>
      [] ch = NL  -> << BS, "n" >>
      [] ch = CR  -> << BS, "r" >>
      [] ch = TAB -> << BS, "t" >>
      [] OTHER    -> << ch >>

RECURSIVE JsonBody(_)
JsonBody(str) ==
    IF str = << >> THEN << >> ELSE JsonChar(Head(str)) \o JsonBody(Tail(str))

JsonString(str) == << DQ >> \o JsonBody(str) \o << DQ >>

\* serde_json::to_string_pretty of a map of strings
JsonPretty(env_vars, order) ==
    IF Len(order) = 0 THEN << "{", "}" >>
    ELSE << "{", NL >>
         \o Join([i \in 1..Len(order) |->
                    << " ", " " >> \o JsonString(order[i]) \o << ":", " " >>
                    \o JsonString(env_vars[order[i]])],
                 << ",", NL >>)
         \o << NL, "}" >>

\* anyhow::bail!("Unsupported format: {}. Use 'bash' or 'json'", format)
UnsupportedFormat(format) == [ok |-> FALSE, error |-> "UnsupportedFormat", text |-> format]

\* ------------------------------------------------------------------ the file

NoFile == [exists |-> FALSE, text |-> << >>]
FileOf(text) == [exists |-> TRUE, text |-> text]

\* read_env_file: a missing file reads as no lines
read_env_file(f) == IF f.exists THEN parse_env_file(f.text) ELSE << >>

\* save_env_file: the file as fs::write leaves it
save_env_file(lines) == FileOf(write_env_file(lines))

\* ------------------------------------------------------------------ state

VARIABLES
    file,      \* the .env file on disk: [exists, text]
    stdout,    \* what the last command printed, one entry per println!
    lines,     \* a Vec<EnvLine> held by a caller of the library
    value,     \* a value handed to the Shell Escaper
    call,      \* the last call: its name, argument, the state before it, its result
    start      \* the Vec<EnvLine> a run of set and unset calls began with

vars == << file, stdout, lines, value, call, start >>

NoCall == [name |-> "init", arg |-> << >>, pre |-> << >>, ret |-> Ok]

\* all strings over an alphabet up to a length
Strings(alphabet, n) == UNION {[1..k -> alphabet] : k \in 0..n}

\* ------------------------------------------------------------------ the commands (main.rs)

MaxFileLines == 2

\* raw lines a file is made of: a plain and a quoted assignment, a key and a
\* value the shell would expand, a comment, a blank line
FileLines ==
    { << "A", "=", "A" >>,
      << "B", "=", DQ, "#", DQ >>,
      << "$", "=", BS, "$" >>,
      << "#", "A" >>,
      << >> }

\* the lines joined by newlines, with or without a newline at the end
FileText(ls, terminated) ==
    Join(ls, << NL >>) \o (IF terminated THEN << NL >> ELSE << >>)

FileTexts ==
    {FileText(ls, t) : ls \in Strings(FileLines, MaxFileLines), t \in BOOLEAN}

KeyA == << "A" >>
KeyB == << "B" >>
KeyNone == << >>

PairA   == << "A", "=", "$" >>
PairB   == << " ", "B", " ", "=", "A", "#" >>
PairBad == << "A", "B" >>
PairAB  == << "A", "=", "B" >>

SetPairLists ==
    {<< >>, << PairA >>, << PairB >>, << PairBad >>, << PairA, PairBad >>,
     << PairAB, PairA >>}
UnsetKeyLists == {<< >>, << KeyA >>, << KeyNone >>, << KeyA, KeyB >>}
ExportFormats ==
    {FormatBash, << "B", "A", "S", "H" >>, << "J", "s", "o", "n" >>, << "e", "n", "v" >>}

InitCli ==
    /\ file \in {NoFile} \cup {FileOf(t) : t \in FileTexts}
    /\ stdout = << >>
    /\ lines = << >>
    /\ value = << >>
    /\ call = NoCall
    /\ start = << >>

\* set_command saving the lines whether or not set_env_vars failed
SetCommandAlwaysSaves(pairs) ==
    LET set == set_env_vars(read_env_file(file), pairs) IN
    /\ file' = save_env_file(set.lines)
    /\ stdout' = << >>
    /\ call' = [name |-> "set", arg |-> pairs, pre |-> file, ret |-> set.ret]
    /\ UNCHANGED << lines, value, start >>

\* set_command refusing to work on a file that does not exist
SetCommandNeedsFile(pairs) ==
    LET set == set_env_vars(read_env_file(file), pairs)
        ret == IF file.exists THEN set.ret
               ELSE [ok |-> FALSE, error |-> "NotFound", text |-> << >>]
    IN
    /\ file' = IF ret.ok THEN save_env_file(set.lines) ELSE file
    /\ stdout' = << >>
    /\ call' = [name |-> "set", arg |-> pairs, pre |-> file, ret |-> ret]
    /\ UNCHANGED << lines, value, start >>

\* set_command: read, set, and save unless set failed
SetCommand(pairs) ==
    LET set == set_env_vars(read_env_file(file), pairs) IN
    /\ file' = IF set.ret.ok THEN save_env_file(set.lines) ELSE file
    /\ stdout' = << >>
    /\ call' = [name |-> "set", arg |-> pairs, pre |-> file, ret |-> set.ret]
    /\ UNCHANGED << lines, value, start >>

\* unset_command: read, unset, save
UnsetCommand(keys) ==
    /\ file' = save_env_file(unset_env_vars(read_env_file(file), keys))
    /\ stdout' = << >>
    /\ call' = [name |-> "unset", arg |-> keys, pre |-> file, ret |-> Ok]
    /\ UNCHANGED << lines, value, start >>

\* export_command: the map is printed in the HashMap's iteration order
ExportCommand(format) ==
    \E env_vars \in {get_env_vars(read_env_file(file))}, fmt \in {to_lowercase(format)} :
        /\ \/ /\ fmt = FormatBash
              /\ \E order \in Orderings(DOMAIN env_vars) :
                    stdout' = BashExport(env_vars, order)
           \/ /\ fmt = FormatJson
              /\ \E order \in Orderings(DOMAIN env_vars) :
                    stdout' = << JsonPretty(env_vars, order) >>
           \/ /\ fmt \notin {FormatBash, FormatJson}
              /\ stdout' = << >>
        /\ call' = [name |-> "export", arg |-> format, pre |-> file,
                    ret |-> IF fmt \in {FormatBash, FormatJson} THEN Ok
                            ELSE UnsupportedFormat(format)]
        /\ UNCHANGED << file, lines, value, start >>

\* keys_command
KeysCommand ==
    /\ stdout' = get_env_keys(read_env_file(file))
    /\ call' = [name |-> "keys", arg |-> << >>, pre |-> file, ret |-> Ok]
    /\ UNCHANGED << file, lines, value, start >>

Next ==
    \/ \E pairs \in SetPairLists : SetCommand(pairs)
    \/ \E keys \in UnsetKeyLists : UnsetCommand(keys)
    \/ \E format \in ExportFormats : ExportCommand(format)
    \/ KeysCommand

Spec == InitCli /\ [][Next]_vars

\* ------------------------------------------------------------------ the library (lib.rs)

MaxLines == 3

\* the lines a caller's Vec<EnvLine> starts from
LibLines ==
    { KeyValue(KeyA, << "A" >>),
      KeyValue(KeyB, << "A", "#" >>),
      Comment(<< "#", "A" >>),
      Empty(<< >>) }

PairC == << "C", "=", "A", "=", " " >>
PairHash == << "A", "=", "#" >>

LibPairLists ==
    { << PairA >>, << PairB >>, << PairC, PairA >>, << PairHash >>, << PairAB, PairA >>,
      << PairBad >>, << PairB, PairBad, PairA >>, << PairBad, PairA >> }
LibKeyLists == {<< >>, << KeyA >>, << KeyB, KeyA >>}

InitLib ==
    /\ lines \in Strings(LibLines, MaxLines)
    /\ file = NoFile
    /\ stdout = << >>
    /\ value = << >>
    /\ call = NoCall
    /\ start = << >>

\* set_env_vars(&mut lines, pairs)
SetEnvVars(pairs) ==
    \E set \in {set_env_vars(lines, pairs)} :
        /\ lines' = set.lines
        /\ call' = [name |-> "set_env_vars", arg |-> pairs, pre |-> lines, ret |-> set.ret]
        /\ UNCHANGED << file, stdout, value, start >>

\* unset_env_vars(&mut lines, keys)
UnsetEnvVars(keys) ==
    /\ lines' = unset_env_vars(lines, keys)
    /\ call' = [name |-> "unset_env_vars", arg |-> keys, pre |-> lines, ret |-> Ok]
    /\ UNCHANGED << file, stdout, value, start >>

\* save_env_file(path, &lines) followed by read_env_file(path)
SaveAndRead ==
    /\ lines' = read_env_file(save_env_file(lines))
    /\ call' = [name |-> "save_and_read", arg |-> << >>, pre |-> lines, ret |-> Ok]
    /\ UNCHANGED << file, stdout, value, start >>

NextLib ==
    \/ \E pairs \in LibPairLists : SetEnvVars(pairs)
    \/ \E keys \in LibKeyLists : UnsetEnvVars(keys)
    \/ SaveAndRead

SpecLib == InitLib /\ [][NextLib]_vars

\* ------------------------------------------------------------------ runs of set and unset

\* lists of well-formed pairs: every set_env_vars call returns Ok
EditPairLists == {<< PairA >>, << PairB >>, << PairC, PairA >>}

InitEdit ==
    /\ lines \in Strings(LibLines, MaxLines)
    /\ start = lines
    /\ file = NoFile
    /\ stdout = << >>
    /\ value = << >>
    /\ call = NoCall

NextEdit ==
    \/ \E pairs \in EditPairLists : SetEnvVars(pairs)
    \/ \E keys \in LibKeyLists : UnsetEnvVars(keys)

SpecEdit == InitEdit /\ [][NextEdit]_vars

\* ------------------------------------------------------------------ the Shell Escaper alone

MaxValueLen == 3

\* every character the escaper treats specially, and two it does not
EscapeAlphabet ==
    {" ", TAB, NL, CR, DQ, SQ, "$", BT, BS, "!", "*", "?", "[", "]",
     "{", "}", "(", ")", "<", ">", "&", "|", ";", "#", "a", "n"}

InitEscape ==
    /\ value \in Strings(EscapeAlphabet, MaxValueLen)
    /\ file = NoFile
    /\ stdout = << >>
    /\ lines = << >>
    /\ call = NoCall
    /\ start = << >>

\* shell_escape(&value)
ShellEscape ==
    /\ call' = [name |-> "shell_escape", arg |-> value, pre |-> << >>,
                ret |-> shell_escape(value)]
    /\ UNCHANGED << file, stdout, lines, value, start >>

SpecEscape == InitEscape /\ [][ShellEscape]_vars

\* ------------------------------------------------------------------ the Value Decoder alone

MaxRawLen == 4

\* the quotes, the backslash, the letters of the escapes, the comment sign, a space
DecodeAlphabet == {DQ, SQ, BS, "n", "r", "t", "#", " "}

InitDecode ==
    /\ value \in Strings(DecodeAlphabet, MaxRawLen)
    /\ file = NoFile
    /\ stdout = << >>
    /\ lines = << >>
    /\ call = NoCall
    /\ start = << >>

\* parse_value(raw)
ParseValue ==
    /\ call' = [name |-> "parse_value", arg |-> value, pre |-> << >>,
                ret |-> parse_value(value)]
    /\ UNCHANGED << file, stdout, lines, value, start >>

SpecDecode == InitDecode /\ [][ParseValue]_vars

\* ------------------------------------------------------------------ the Line Classifier alone

MaxTextLen == 4

\* what a line is told by, what a value is decoded by, and a letter
TextAlphabet == {" ", "#", "=", NL, DQ, SQ, BS, "n"}

InitClassify ==
    /\ value \in Strings(TextAlphabet, MaxTextLen)
    /\ file = NoFile
    /\ stdout = << >>
    /\ lines = << >>
    /\ call = NoCall
    /\ start = << >>

\* parse_env_file(content)
ParseEnvFile ==
    /\ call' = [name |-> "parse_env_file", arg |-> value, pre |-> << >>,
                ret |-> parse_env_file(value)]
    /\ UNCHANGED << file, stdout, lines, value, start >>

SpecClassify == InitClassify /\ [][ParseEnvFile]_vars

\* ------------------------------------------------------------------ the library on a text

MaxInputLen == 3

TextKeyLists == {<< >>, << << "n" >> >>, << << >>, << "n" >> >>}

InitTotal ==
    /\ value \in Strings(TextAlphabet, MaxInputLen)
    /\ file = NoFile
    /\ stdout = << >>
    /\ lines = << >>
    /\ call = NoCall
    /\ start = << >>

\* write_env_file(&parse_env_file(content))
WriteEnvFile ==
    /\ call' = [name |-> "write_env_file", arg |-> parse_env_file(value), pre |-> << >>,
                ret |-> write_env_file(parse_env_file(value))]
    /\ UNCHANGED << file, stdout, lines, value, start >>

\* get_env_vars(&parse_env_file(content))
GetEnvVars ==
    /\ call' = [name |-> "get_env_vars", arg |-> parse_env_file(value), pre |-> << >>,
                ret |-> get_env_vars(parse_env_file(value))]
    /\ UNCHANGED << file, stdout, lines, value, start >>

\* get_env_keys(&parse_env_file(content))
GetEnvKeys ==
    /\ call' = [name |-> "get_env_keys", arg |-> parse_env_file(value), pre |-> << >>,
                ret |-> get_env_keys(parse_env_file(value))]
    /\ UNCHANGED << file, stdout, lines, value, start >>

\* unset_env_vars(&mut parse_env_file(content), keys)
UnsetParsed(keys) ==
    /\ call' = [name |-> "unset_env_vars", arg |-> keys, pre |-> parse_env_file(value),
                ret |-> unset_env_vars(parse_env_file(value), keys)]
    /\ UNCHANGED << file, stdout, lines, value, start >>

NextTotal ==
    \/ ParseEnvFile
    \/ ParseValue
    \/ ShellEscape
    \/ WriteEnvFile
    \/ GetEnvVars
    \/ GetEnvKeys
    \/ \E keys \in TextKeyLists : UnsetParsed(keys)

SpecTotal == InitTotal /\ [][NextTotal]_vars

\* ------------------------------------------------------------------ properties: helpers

\* the number of backslashes standing immediately before position j
RECURSIVE BackslashRun(_, _)
BackslashRun(s, j) ==
    IF j > 1 /\ s[j - 1] = BS THEN 1 + BackslashRun(s, j - 1) ELSE 0

Odd(n) == n % 2 = 1
Even(n) == n % 2 = 0

\* a word wrapped in double quotes
Quoted(e) == Len(e) >= 2 /\ e[1] = DQ /\ e[Len(e)] = DQ

\* the key -> value view of a file as it is loaded
Loaded(f) == get_env_vars(read_env_file(f))

\* two maps agree on every key except K
AgreeExcept(old, new, K) ==
    /\ (DOMAIN old) \ {K} = (DOMAIN new) \ {K}
    /\ \A k \in (DOMAIN old) \ {K} : old[k] = new[k]

\* the first "=" of a well-formed pair, its key and its value
FirstEq(pair) == CHOOSE i \in 1..Len(pair) : pair[i] = "=" /\ \A j \in 1..(i - 1) : pair[j] # "="
PairKey(pair) == Trim(SubSeq(pair, 1, FirstEq(pair) - 1))
PairValue(pair) == SubSeq(pair, FirstEq(pair) + 1, Len(pair))
WellFormed(pair) == Contains(pair, "=")

\* ------------------------------------------------------------------ C1

\* C1: after the set or unset command has edited one key K, reloading the file
\* gives every key other than K the decoded value it had before the command.
C1_OtherKeysUndisturbed ==
    /\ (call.name = "unset" /\ Len(call.arg) = 1)
          => AgreeExcept(Loaded(call.pre), Loaded(file), call.arg[1])
    /\ (call.name = "set" /\ Len(call.arg) = 1 /\ call.ret.ok)
          => AgreeExcept(Loaded(call.pre), Loaded(file), PairKey(call.arg[1]))

\* ------------------------------------------------------------------ C2

\* a "$" or a backtick at position j is backslash-escaped inside the
\* double-quoted right-hand side that starts after the first "="
EscapedInRhs(l, j) ==
    LET eq == Find(l, "=") IN
    /\ eq # 0 /\ eq + 1 < j /\ j < Len(l)
    /\ l[eq + 1] = DQ /\ l[Len(l)] = DQ
    /\ Odd(BackslashRun(l, j))

SafeExportLine(l) ==
    /\ Len(l) >= 8
    /\ SubSeq(l, 1, 7) = << "e", "x", "p", "o", "r", "t", " " >>
    /\ Find(l, "=") > 7
    /\ \A j \in 1..Len(l) : l[j] \in {"$", BT} => EscapedInRhs(l, j)

\* C2: every line of a bash export has the form export KEY=RHS and holds no "$"
\* or backtick, in the key or in the value, that is not backslash-escaped
\* inside the double-quoted right-hand side.
C2_ExportInjectionSafe ==
    (call.name = "export" /\ to_lowercase(call.arg) = FormatBash)
        => \A i \in 1..Len(stdout) : SafeExportLine(stdout[i])

\* ------------------------------------------------------------------ C3

\* C3: escape(s) holds no unescaped "$", backtick or double quote: none at all
\* when it is not quoted; when it is, each one between the quotes follows an
\* odd run of backslashes and the closing quote follows an even run.
C3_NoUnescapedSpecials ==
    call.name = "shell_escape" =>
        LET e == call.ret IN
        IF Quoted(e)
        THEN /\ \A j \in 2..(Len(e) - 1) :
                    e[j] \in {"$", BT, DQ} => Odd(BackslashRun(e, j))
             /\ Even(BackslashRun(e, Len(e)))
        ELSE \A j \in 1..Len(e) : e[j] \notin {"$", BT, DQ}

\* a backslash followed by "$" has been escaped
C3_Witness ==
    /\ call.name = "shell_escape"
    /\ call.arg = << BS, "$" >>
    /\ call.ret = << DQ, BS, BS, BS, "$", DQ >>

\* ------------------------------------------------------------------ C4

\* a command that only parsed the file and wrote it back
PureRewrite ==
    /\ call.name \in {"set", "unset"}
    /\ call.arg = << >>
    /\ call.pre.exists

\* C4: once a text has been parsed and written, parsing and writing the result
\* again changes nothing.
C4_NormalizationIdempotent ==
    PureRewrite => write_env_file(parse_env_file(file.text)) = file.text

\* ------------------------------------------------------------------ C5

NoSurroundingSpace(str) == Trim(str) = str

\* a line the round-trip property speaks of
RoundTripLine(line) ==
    IF IsKeyValue(line)
    THEN /\ NoSurroundingSpace(line.key)
         /\ NoSurroundingSpace(line.value)
         /\ ~Contains(line.key, "=")
         /\ ~StartsWith(line.key, "#")
         /\ ~StartsWith(line.value, DQ)
         /\ ~StartsWith(line.value, SQ)
    ELSE ClassifyLine(line.value) = line

\* C5: for lines that are comments, blanks and unquoted, unspaced assignments,
\* writing, parsing and writing again gives the text of the first writing.
C5_RoundTripIdentity ==
    (call.name = "save_and_read" /\ \A i \in 1..Len(call.pre) : RoundTripLine(call.pre[i]))
        => write_env_file(lines) = write_env_file(call.pre)

\* ------------------------------------------------------------------ C6

CommentOrBlank(l) == Trim(l) = << >> \/ StartsWith(TrimStart(l), "#")

\* a text of comment and blank lines only, each ended by a newline
CommentsAndBlanksOnly(text) ==
    /\ text # << >> => text[Len(text)] = NL
    /\ \A i \in 1..Len(Lines(text)) : CommentOrBlank(Lines(text)[i])

\* C6: a file of comment and blank lines only is byte-for-byte the same after
\* a command has parsed and rewritten it.
C6_CommentsPreservedVerbatim ==
    (call.name = "unset" /\ call.pre.exists /\ CommentsAndBlanksOnly(call.pre.text))
        => file.text = call.pre.text

\* ------------------------------------------------------------------ C7

\* the value bash gives a word: plain text is literal; inside double quotes a
\* backslash is dropped only before "$", backtick, double quote or backslash
RECURSIVE BashDoubleQuoted(_, _)
BashDoubleQuoted(e, i) ==
    IF i >= Len(e) THEN << >>
    ELSE IF e[i] = BS /\ i + 1 < Len(e) /\ e[i + 1] \in {"$", BT, DQ, BS}
         THEN << e[i + 1] >> \o BashDoubleQuoted(e, i + 2)
         ELSE << e[i] >> \o BashDoubleQuoted(e, i + 1)

BashWord(e) == IF Quoted(e) THEN BashDoubleQuoted(e, 2) ELSE e

\* C7: the word escape(s), evaluated by bash, is s again.
C7_BashReadsValueBack ==
    call.name = "shell_escape" => BashWord(call.ret) = call.arg

\* ------------------------------------------------------------------ C8

C8_TriggerSet ==
    {" ", TAB, NL, CR, DQ, SQ, "$", BT, BS, "!", "*", "?", "[", "]",
     "{", "}", "(", ")", "<", ">", "&", "|", ";", "#"}

\* C8: escape(s) is s itself exactly when s holds no character of the trigger
\* set; the empty string comes back unchanged.
C8_EscapeMinimality ==
    call.name = "shell_escape" =>
        /\ (call.ret = call.arg) <=> (\A i \in 1..Len(call.arg) : call.arg[i] \notin C8_TriggerSet)
        /\ call.arg = << >> => call.ret = << >>

\* a value whose only trigger character is "#" has been quoted
C8_Witness ==
    /\ call.name = "shell_escape"
    /\ call.arg = << "a", "#" >>
    /\ call.ret = << DQ, "a", "#", DQ >>

\* ------------------------------------------------------------------ C9

\* the indices of the KeyValue lines with key K
Matches(ls, K) == {i \in 1..Len(ls) : IsKeyValue(ls[i]) /\ ls[i].key = K}

Least(S) == CHOOSE i \in S : \A j \in S : i <= j

\* what set with one well-formed pair is to leave
UpdatedFirstOrAppended(before, after, pair) ==
    LET K == PairKey(pair)
        v == PairValue(pair)
    IN  IF Matches(before, K) # {}
        THEN /\ Len(after) = Len(before)
             /\ \A i \in 1..Len(before) :
                    after[i] = IF i = Least(Matches(before, K)) THEN KeyValue(K, v)
                               ELSE before[i]
        ELSE /\ Len(after) = Len(before) + 1
             /\ after[Len(after)] = KeyValue(K, v)
             /\ \A i \in 1..Len(before) : after[i] = before[i]

\* C9: set with one well-formed pair K=v gives the first line with key K the
\* value v and changes nothing else, or, when no line has key K, appends one
\* line K=v and changes nothing else.
C9_SetUpdatesFirstOrAppends ==
    (call.name = "set_env_vars" /\ Len(call.arg) = 1 /\ WellFormed(call.arg[1]))
        => /\ call.ret = Ok
           /\ UpdatedFirstOrAppended(call.pre, lines, call.arg[1])

\* the key was on two lines: the first has the new value, the second its old one
C9_Witness ==
    /\ call.name = "set_env_vars"
    /\ call.arg = << PairA >>
    /\ Cardinality(Matches(call.pre, KeyA)) = 2
    /\ \E i, j \in Matches(lines, KeyA) :
          i < j /\ lines[i].value = << "$" >> /\ lines[j].value = << "A" >>

\* ------------------------------------------------------------------ C10

Malformed(pairs) == {i \in 1..Len(pairs) : ~WellFormed(pairs[i])}

\* the lines after one well-formed pair: its key's first line updated, or a
\* line appended
WithPair(before, pair) ==
    LET K == PairKey(pair)
        v == PairValue(pair)
    IN  IF Matches(before, K) # {}
        THEN [before EXCEPT ![Least(Matches(before, K))] = KeyValue(K, v)]
        ELSE Append(before, KeyValue(K, v))

RECURSIVE WithPairs(_, _)
WithPairs(before, pairs) ==
    IF pairs = << >> THEN before
    ELSE WithPairs(WithPair(before, pairs[1]), Tail(pairs))

\* C10: when pairs[i] is the first pair without "=", set fails with that pair's
\* text and leaves the lines as the pairs before it made them; nothing is
\* changed when it is the first pair.
C10_MalformedPairAborts ==
    (call.name = "set_env_vars" /\ Malformed(call.arg) # {})
        => LET i == Least(Malformed(call.arg)) IN
           /\ call.ret = InvalidPair(call.arg[i])
           /\ lines = WithPairs(call.pre, SubSeq(call.arg, 1, i - 1))
           /\ i = 1 => lines = call.pre

\* the pair before the malformed one was applied, the pair after it was not
C10_Witness ==
    /\ call.name = "set_env_vars"
    /\ call.arg = << PairB, PairBad, PairA >>
    /\ call.ret = InvalidPair(PairBad)
    /\ call.pre = << KeyValue(KeyA, << "A" >>) >>
    /\ lines = << KeyValue(KeyA, << "A" >>), KeyValue(KeyB, << "A", "#" >>) >>

\* ------------------------------------------------------------------ C11

\* the members of a list
Members(seq) == {seq[i] : i \in 1..Len(seq)}

\* the k-th smallest member of a set of indices
Nth(S, k) == CHOOSE i \in S : Cardinality({j \in S : j <= i}) = k

\* the lines of ls at the indices S, in their order
Sub(ls, S) == [k \in 1..Cardinality(S) |-> ls[Nth(S, k)]]

\* C11: unset removes every KeyValue line whose key is one of the keys, every
\* occurrence of it, and keeps all other lines unchanged and in their order.
C11_UnsetRemovesAllAndOnlyThose ==
    call.name = "unset_env_vars" =>
        LET before == call.pre
            stay == {i \in 1..Len(before) :
                        ~(IsKeyValue(before[i]) /\ before[i].key \in Members(call.arg))}
        IN  lines = Sub(before, stay)

\* a key that stood on two lines is gone, the comment between them is kept
C11_Witness ==
    /\ call.name = "unset_env_vars"
    /\ call.arg = << KeyA >>
    /\ call.pre = << KeyValue(KeyA, << "$" >>), Comment(<< "#", "A" >>), KeyValue(KeyA, << "A" >>) >>
    /\ lines = << Comment(<< "#", "A" >>) >>

\* ------------------------------------------------------------------ C12

\* the indices of the KeyValue lines of ls
KeyValueIndices(ls) == {i \in 1..Len(ls) : IsKeyValue(ls[i])}

\* the index of the last KeyValue line of ls with key k
LastOf(ls, k) ==
    CHOOSE i \in KeyValueIndices(ls) :
        /\ ls[i].key = k
        /\ \A j \in KeyValueIndices(ls) : ls[j].key = k => j <= i

ExportWord == << "e", "x", "p", "o", "r", "t", " " >>

\* two texts that differ at most in the case of their letters
SameIgnoringCase(a, b) ==
    /\ Len(a) = Len(b)
    /\ \A i \in 1..Len(a) :
          \/ a[i] = b[i]
          \/ \E n \in 1..Len(Upper) : {a[i], b[i]} = {Upper[n], Lower[n]}

\* C12: the map of a sequence has exactly the keys of its KeyValue lines and
\* gives each the value of its last line; the bash export prints one export
\* line for each of these keys, with that value.
C12_MapIsLastWriteWins ==
    LET ls == read_env_file(file)
        keys == {ls[i].key : i \in KeyValueIndices(ls)}
        map == get_env_vars(ls)
    IN  /\ DOMAIN map = keys
        /\ \A k \in keys : map[k] = ls[LastOf(ls, k)].value
        /\ (call.name = "export" /\ SameIgnoringCase(call.arg, << "b", "a", "s", "h" >>)) =>
              /\ Len(stdout) = Cardinality(keys)
              /\ \A k \in keys :
                    Cardinality({i \in 1..Len(stdout) :
                        stdout[i] = ExportWord \o k \o << "=" >>
                                    \o shell_escape(ls[LastOf(ls, k)].value)}) = 1

\* a key on two lines with different values is exported once, with the later value
C12_Witness ==
    /\ call.name = "export"
    /\ call.arg = FormatBash
    /\ read_env_file(file) = << KeyValue(KeyA, << "$" >>), KeyValue(KeyA, << "A" >>) >>
    /\ stdout = << ExportWord \o << "A", "=", "A" >> >>

\* ------------------------------------------------------------------ C13

\* C13: keys lists the key of every KeyValue line in file order, a key as
\* often as it has lines; comments and blank lines add nothing.
C13_KeysInOrderWithDuplicates ==
    call.name = "keys" =>
        LET ls == read_env_file(call.pre)
            kv == KeyValueIndices(ls)
        IN  /\ Len(stdout) = Cardinality(kv)
            /\ \A k \in 1..Len(stdout) : stdout[k] = ls[Nth(kv, k)].key

\* a key with two lines is listed twice, before the key of a later line
C13_Witness ==
    /\ call.name = "keys"
    /\ Len(read_env_file(call.pre)) = 3
    /\ stdout = << KeyA, KeyA, KeyB >>

\* ------------------------------------------------------------------ C14

\* the Comment and Empty lines of ls, in order
NonKeyValue(ls) == Sub(ls, (1..Len(ls)) \ KeyValueIndices(ls))

\* new is old with some KeyValue lines taken out, some values replaced, and
\* KeyValue lines added at the end
EditedFrom(old, new) ==
    \E kept \in SUBSET (1..Len(old)) :
        /\ (1..Len(old)) \ KeyValueIndices(old) \subseteq kept
        /\ Cardinality(kept) <= Len(new)
        /\ \A k \in 1..Cardinality(kept) :
              IF IsKeyValue(old[Nth(kept, k)])
              THEN IsKeyValue(new[k]) /\ new[k].key = old[Nth(kept, k)].key
              ELSE new[k] = old[Nth(kept, k)]
        /\ \A k \in (Cardinality(kept) + 1)..Len(new) : IsKeyValue(new[k])

\* C14: after any run of successful set and unset calls the Comment and Empty
\* lines are those the run began with, in the same order; the KeyValue lines
\* that remain stand in their old order between them, and lines of new keys
\* stand at the end.
C14_StructurePreserved ==
    /\ NonKeyValue(lines) = NonKeyValue(start)
    /\ EditedFrom(start, lines)

\* a run of two calls: a key between a comment and a blank line is removed,
\* two keys are added after the blank line
C14_Witness ==
    /\ start = << Comment(<< "#", "A" >>), KeyValue(KeyB, << "A", "#" >>), Empty(<< >>) >>
    /\ call.name = "set_env_vars"
    /\ call.pre = << Comment(<< "#", "A" >>), Empty(<< >>) >>
    /\ lines = << Comment(<< "#", "A" >>), Empty(<< >>),
                  KeyValue(<< "C" >>, << "A", "=", " " >>), KeyValue(KeyA, << "$" >>) >>

\* ------------------------------------------------------------------ C15

\* text s begins with the text p
HasPrefix(s, p) == Len(s) >= Len(p) /\ SubSeq(s, 1, Len(p)) = p

\* C15: an export whose format is neither bash nor json, whatever the case of
\* its letters, fails with an error that carries the format as given and
\* prints nothing; bash and json in any case are accepted and print the
\* export lines, respectively the JSON object.
C15_UnsupportedFormatRejected ==
    call.name = "export" =>
        IF SameIgnoringCase(call.arg, << "b", "a", "s", "h" >>)
        THEN /\ call.ret = Ok
             /\ Len(stdout) = Cardinality(DOMAIN Loaded(call.pre))
             /\ \A i \in 1..Len(stdout) : HasPrefix(stdout[i], ExportWord)
        ELSE IF SameIgnoringCase(call.arg, << "j", "s", "o", "n" >>)
        THEN /\ call.ret = Ok
             /\ Len(stdout) = 1
             /\ HasPrefix(stdout[1], << "{" >>)
        ELSE /\ ~call.ret.ok
             /\ call.ret.error = "UnsupportedFormat"
             /\ call.ret.text = call.arg
             /\ stdout = << >>

\* the format env is refused although the file has a key to export
C15_Witness ==
    /\ call.name = "export"
    /\ call.arg = << "e", "n", "v" >>
    /\ call.ret = UnsupportedFormat(<< "e", "n", "v" >>)
    /\ DOMAIN Loaded(file) = {KeyA}
    /\ stdout = << >>

\* ------------------------------------------------------------------ C16

\* the value the last pair with key k gives it
LastValue(pairs, k) ==
    PairValue(pairs[CHOOSE i \in 1..Len(pairs) :
                        /\ PairKey(pairs[i]) = k
                        /\ \A j \in (i + 1)..Len(pairs) : PairKey(pairs[j]) # k])

\* text is one line key=value for each key of the pairs, each ended by a newline
OneLinePerKey(text, pairs) ==
    \E order \in Orderings({PairKey(pairs[i]) : i \in 1..Len(pairs)}) :
        text = Join([i \in 1..Len(order) |->
                        order[i] \o << "=" >> \o LastValue(pairs, order[i])], << NL >>)
               \o (IF Len(order) = 0 THEN << >> ELSE << NL >>)

\* C16: a file that does not exist reads as the empty sequence; set on it
\* succeeds and writes one line key=value for each distinct key of the pairs;
\* keys and export on it succeed and have no entry to print.
C16_MissingFileIsEmpty ==
    /\ read_env_file(NoFile) = << >>
    /\ call.pre = NoFile =>
        /\ (call.name = "set" /\ \A i \in 1..Len(call.arg) : WellFormed(call.arg[i])) =>
              /\ call.ret = Ok
              /\ file.exists
              /\ OneLinePerKey(file.text, call.arg)
        /\ call.name = "keys" => call.ret = Ok /\ stdout = << >> /\ file = NoFile
        /\ (call.name = "export" /\ SameIgnoringCase(call.arg, << "b", "a", "s", "h" >>)) =>
              call.ret = Ok /\ stdout = << >> /\ file = NoFile
        /\ (call.name = "export" /\ SameIgnoringCase(call.arg, << "j", "s", "o", "n" >>)) =>
              call.ret = Ok /\ stdout = << << "{", "}" >> >> /\ file = NoFile

\* two pairs for one key, set on a missing file, leave one line
C16_Witness ==
    /\ call.name = "set"
    /\ call.pre = NoFile
    /\ call.arg = << PairAB, PairA >>
    /\ file = FileOf(<< "A", "=", "$", NL >>)

\* ------------------------------------------------------------------ C17

\* the characters a text is made of
Characters == {" ", "#", "=", NL, CR, TAB, DQ, SQ, BS, "n"}

IsText(x) == x \in Seq(Characters)

IsTypedLine(l) ==
    /\ l.kind \in {"KeyValue", "Comment", "Empty"}
    /\ IsText(l.key)
    /\ IsText(l.value)

\* C17: unset, toMap, keys, decode, serialize and escape return a result of
\* their type on every input, the classified lines of every text included:
\* a text, a sequence of typed lines, a map from texts to texts; never a failure.
C17_OperationsAreTotal ==
    /\ call.name = "parse_value" => IsText(call.ret)
    /\ call.name = "shell_escape" => IsText(call.ret)
    /\ call.name = "write_env_file" => IsText(call.ret)
    /\ call.name = "parse_env_file" =>
          \A i \in 1..Len(call.ret) : IsTypedLine(call.ret[i])
    /\ call.name = "unset_env_vars" =>
          /\ Len(call.ret) <= Len(call.pre)
          /\ \A i \in 1..Len(call.ret) : IsTypedLine(call.ret[i])
    /\ call.name = "get_env_keys" =>
          \A i \in 1..Len(call.ret) : IsText(call.ret[i])
    /\ call.name = "get_env_vars" =>
          \A k \in DOMAIN call.ret : IsText(k) /\ IsText(call.ret[k])

\* a single-quoted value whose quote is never closed is decoded
C17_Witness ==
    /\ call.name = "parse_value"
    /\ call.arg = << SQ, "n" >>
    /\ call.ret = << "n" >>

\* ------------------------------------------------------------------ C18

\* the encoding of one character inside the double quotes
Encoding(ch) ==
    IF ch \in {DQ, BS, "$", BT, "!"} THEN << BS, ch >>
    ELSE IF ch = NL THEN << BS, "n" >>
    ELSE IF ch = CR THEN << BS, "r" >>
    ELSE IF ch = TAB THEN << BS, "t" >>
    ELSE << ch >>

\* out is the encodings of the characters of s from position i on, one after another
RECURSIVE IsEncodingOf(_, _, _)
IsEncodingOf(out, s, i) ==
    IF i > Len(s) THEN out = << >>
    ELSE /\ Len(out) >= Len(Encoding(s[i]))
         /\ SubSeq(out, 1, Len(Encoding(s[i]))) = Encoding(s[i])
         /\ IsEncodingOf(SubSeq(out, Len(Encoding(s[i])) + 1, Len(out)), s, i + 1)

\* C18: the escape of a text with a trigger character is a double quote, the
\* encoding of each character in order, and a double quote; it holds no raw
\* newline, carriage return or tab.
C18_EscapeEncoding ==
    (call.name = "shell_escape" /\ \E i \in 1..Len(call.arg) : call.arg[i] \in C8_TriggerSet) =>
        LET out == call.ret IN
        /\ Len(out) >= 2
        /\ out[1] = DQ
        /\ out[Len(out)] = DQ
        /\ IsEncodingOf(SubSeq(out, 2, Len(out) - 1), call.arg, 1)
        /\ \A i \in 1..Len(out) : out[i] \notin {NL, CR, TAB}

\* a dollar sign is escaped, a comment sign is kept, a tab is spelled out
C18_Witness ==
    /\ call.name = "shell_escape"
    /\ call.arg = << "$", "#", TAB >>
    /\ call.ret = << DQ, BS, "$", "#", BS, "t", DQ >>

\* ------------------------------------------------------------------ C19

\* the positions of the line ends of a text
LineEnds(text) == {i \in 1..Len(text) : text[i] = NL}

\* the number of physical lines: one for each line end, one more for text after the last
PhysicalLineCount(text) ==
    Cardinality(LineEnds(text))
    + (IF Len(text) > 0 /\ text[Len(text)] # NL THEN 1 ELSE 0)

\* the k-th physical line, without its line end
PhysicalLine(text, k) ==
    LET from == IF k = 1 THEN 1 ELSE Nth(LineEnds(text), k - 1) + 1
        to   == IF k <= Cardinality(LineEnds(text)) THEN Nth(LineEnds(text), k) - 1
                ELSE Len(text)
    IN  SubSeq(text, from, to)

Blank(ch) == ch \in {" ", TAB, CR}

\* the text without the blanks at its two ends
Trimmed(t) ==
    LET solid == {i \in 1..Len(t) : ~Blank(t[i])} IN
    IF solid = {} THEN << >>
    ELSE SubSeq(t, Nth(solid, 1), Nth(solid, Cardinality(solid)))

\* the typed line the four rules give a line
Classified(line) ==
    IF Trimmed(line) = << >> THEN Empty(line)
    ELSE IF Trimmed(line)[1] = "#" THEN Comment(line)
    ELSE IF \E i \in 1..Len(line) : line[i] = "="
    THEN KeyValue(Trimmed(SubSeq(line, 1, FirstEq(line) - 1)),
                  parse_value(SubSeq(line, FirstEq(line) + 1, Len(line))))
    ELSE Comment(line)

Escaped(ch) ==
    IF ch = "n" THEN << NL >>
    ELSE IF ch = "r" THEN << CR >>
    ELSE IF ch = "t" THEN << TAB >>
    ELSE IF ch \in {BS, DQ, SQ} THEN << ch >>
    ELSE << BS, ch >>

\* the value read from position i of s on, up to the first double quote that
\* no backslash precedes; lone is what a backslash at the very end stands for
RECURSIVE QuotedValue(_, _, _)
QuotedValue(s, i, lone) ==
    IF i > Len(s) THEN << >>
    ELSE IF s[i] = DQ THEN << >>
    ELSE IF s[i] = BS
    THEN IF i = Len(s) THEN lone
         ELSE Escaped(s[i + 1]) \o QuotedValue(s, i + 2, lone)
    ELSE << s[i] >> \o QuotedValue(s, i + 1, lone)

\* the position of the first character of s that is not a blank, 0 if there is none
FirstSolid(s) ==
    IF \A i \in 1..Len(s) : Blank(s[i]) THEN 0
    ELSE Nth({i \in 1..Len(s) : ~Blank(s[i])}, 1)

\* C20: a raw value whose first solid character is a double quote is decoded
\* from the character after it, left to right: an escape gives the character
\* it stands for, an unknown escape the backslash and the character, the first
\* double quote outside an escape ends the value, and without one the value
\* runs to the end of the text.
C20_DoubleQuotedDecode ==
    (/\ call.name = "parse_value"
     /\ FirstSolid(call.arg) # 0
     /\ call.arg[FirstSolid(call.arg)] = DQ) =>
        \E lone \in {<< >>, << BS >>} :
            call.ret = QuotedValue(call.arg, FirstSolid(call.arg) + 1, lone)

\* an escape that is not known keeps its backslash, the closing quote ends the value
C20_Witness ==
    /\ call.name = "parse_value"
    /\ call.arg = << DQ, BS, "#", DQ >>
    /\ call.ret = << BS, "#" >>

\* ------------------------------------------------------------------ C21

\* C21: a raw value whose first solid character is a single quote decodes to
\* the text between that quote and the next single quote, or the end of the
\* text when there is none, character for character: a backslash is an
\* ordinary character and what follows the closing quote is dropped.
C21_SingleQuotedDecode ==
    (/\ call.name = "parse_value"
     /\ FirstSolid(call.arg) # 0
     /\ call.arg[FirstSolid(call.arg)] = SQ) =>
        LET open == FirstSolid(call.arg)
            later == {i \in (open + 1)..Len(call.arg) : call.arg[i] = SQ}
        IN  call.ret = SubSeq(call.arg, open + 1,
                              IF later = {} THEN Len(call.arg) ELSE Nth(later, 1) - 1)

\* the quote after a backslash closes the value, the backslash is kept
C21_Witness ==
    /\ call.name = "parse_value"
    /\ call.arg = << SQ, BS, SQ, "n" >>
    /\ call.ret = << BS >>

\* ------------------------------------------------------------------ C22

\* the text without the blanks at its end
TrimmedEnd(t) ==
    LET solid == {i \in 1..Len(t) : ~Blank(t[i])} IN
    IF solid = {} THEN << >> ELSE SubSeq(t, 1, Nth(solid, Cardinality(solid)))

\* the raw value is not a quoted one
Unquoted(raw) ==
    FirstSolid(raw) = 0 \/ raw[FirstSolid(raw)] \notin {DQ, SQ}

\* raw from its first solid character up to the first of the positions in
\* stops, or to its end, without the blanks at the end
UnquotedValue(raw, stops) ==
    IF FirstSolid(raw) = 0 THEN << >>
    ELSE TrimmedEnd(SubSeq(raw, FirstSolid(raw),
                           IF stops = {} THEN Len(raw) ELSE Nth(stops, 1) - 1))

\* C22 as stated: an unquoted raw value is decoded by dropping the blanks in
\* front, reading up to the first "#" that is not escaped by a backslash, or
\* to the end, and dropping the blanks at the end; a raw value that is empty
\* or all blanks decodes to the empty text.
C22_UnquotedStopsAtUnescapedHash ==
    (call.name = "parse_value" /\ Unquoted(call.arg)) =>
        call.ret = UnquotedValue(call.arg,
                        {i \in 1..Len(call.arg) :
                            call.arg[i] = "#" /\ Even(BackslashRun(call.arg, i))})

\* C22 amended: an unquoted raw value is decoded by dropping the blanks in
\* front, reading up to the first "#", whether or not a backslash stands
\* before it, or to the end, and dropping the blanks at the end; a raw value
\* that is empty or all blanks decodes to the empty text.
C22_UnquotedStopsAtFirstHash ==
    (call.name = "parse_value" /\ Unquoted(call.arg)) =>
        call.ret = UnquotedValue(call.arg, {i \in 1..Len(call.arg) : call.arg[i] = "#"})

\* the "#" after a backslash ends the value, the backslash is kept
C22_Witness ==
    /\ call.name = "parse_value"
    /\ call.arg = << " ", "n", BS, "#" >>
    /\ call.ret = << "n", BS >>

\* ------------------------------------------------------------------ C23

\* the positions after the opening quote where the quoted value of raw is closed:
\* a single quote, or a double quote that no backslash escapes
Closers(raw) ==
    LET open == FirstSolid(raw) IN
    {i \in (open + 1)..Len(raw) :
        /\ raw[i] = raw[open]
        /\ raw[open] = DQ => Even(BackslashRun(raw, i))}

\* raw is a value enclosed in double or single quotes
Enclosed(raw) ==
    /\ FirstSolid(raw) # 0
    /\ raw[FirstSolid(raw)] \in {DQ, SQ}
    /\ Closers(raw) # {}

\* how often "#" stands in t
Hashes(t) == Cardinality({i \in 1..Len(t) : t[i] = "#"})

\* C23: a "#" inside a quoted value belongs to the value: every "#" between
\* the opening and the closing quote is in the decoded value, and the value
\* does not end at it.
C23_HashInsideQuotesKept ==
    (call.name = "parse_value" /\ Enclosed(call.arg)) =>
        LET inside == SubSeq(call.arg, FirstSolid(call.arg) + 1, Nth(Closers(call.arg), 1) - 1)
        IN  /\ Hashes(call.ret) = Hashes(inside)
            /\ (Hashes(inside) = Len(inside)) => call.ret = inside

\* the "#" between the quotes is the value, the one after them is dropped
C23_Witness ==
    /\ call.name = "parse_value"
    /\ call.arg = << DQ, "#", DQ, "#" >>
    /\ call.ret = << "#" >>

\* ------------------------------------------------------------------ C24

\* a line as it is written: key=value, or the raw text of a comment or blank line
Rendered(line) ==
    IF line.kind = "KeyValue" THEN line.key \o << "=" >> \o line.value ELSE line.value

\* the lines of ls from the i-th on as they are written, each ended by a newline
RECURSIVE EachEnded(_, _)
EachEnded(ls, i) ==
    IF i > Len(ls) THEN << >>
    ELSE Rendered(ls[i]) \o << NL >> \o EachEnded(ls, i + 1)

\* C24: serialize writes key=value for a KeyValue line, the value as it is,
\* and the raw text of a Comment or Empty line, with one newline between two
\* lines and one at the end unless the joined text is empty; no lines give
\* the empty text, and a text that is not empty ends with a newline.
C24_SerializeFormat ==
    call.name = "write_env_file" =>
        LET ls == call.arg
            joinedEmpty == Len(ls) = 0 \/ (Len(ls) = 1 /\ Rendered(ls[1]) = << >>)
        IN  /\ call.ret = IF joinedEmpty THEN << >> ELSE EachEnded(ls, 1)
            /\ ls = << >> => call.ret = << >>
            /\ call.ret # << >> => call.ret[Len(call.ret)] = NL

\* a KeyValue line and a comment line
C24_Witness ==
    /\ call.name = "write_env_file"
    /\ call.arg = << KeyValue(<< >>, << >>), Comment(<< "#" >>) >>
    /\ call.ret = << "=", NL, "#", NL >>

\* ------------------------------------------------------------------ C25

\* C25: a set command whose pairs include one without "=" fails and leaves
\* the file as it was: no pair before the malformed one is written, and a
\* file that did not exist is not created.
C25_FailedSetLeavesFile ==
    (call.name = "set" /\ \E i \in 1..Len(call.arg) : ~WellFormed(call.arg[i])) =>
        /\ ~call.ret.ok
        /\ file = call.pre

\* a well-formed pair before the malformed one, on a file that does not exist
C25_Witness ==
    /\ call.name = "set"
    /\ call.arg = << PairA, PairBad >>
    /\ call.ret = InvalidPair(PairBad)
    /\ call.pre = NoFile
    /\ file = NoFile

\* ------------------------------------------------------------------ C26

\* key k stands on at most one KeyValue line of ls
AtMostOnce(ls, k) ==
    Cardinality({i \in KeyValueIndices(ls) : ls[i].key = k}) <= 1

\* the text has no blank and no "="
PlainKey(k) == \A i \in 1..Len(k) : ~Blank(k[i]) /\ k[i] # "="

\* the text before the first "=" of a pair, as it is given
GivenKey(pair) == SubSeq(pair, 1, FirstEq(pair) - 1)

\* C26: a value written by set is read back unchanged: after set with the
\* one pair K=v, K a key with no blank that stands on at most one line, v with
\* no newline, saving the lines and loading them again gives v for K.
C26_SetValueReadBack ==
    (/\ call.name = "set_env_vars"
     /\ Len(call.arg) = 1
     /\ WellFormed(call.arg[1])
     /\ PlainKey(GivenKey(call.arg[1]))
     /\ AtMostOnce(call.pre, GivenKey(call.arg[1]))
     /\ ~Contains(PairValue(call.arg[1]), NL)) =>
        LET reloaded == get_env_vars(parse_env_file(write_env_file(lines)))
            K == GivenKey(call.arg[1])
        IN  /\ K \in DOMAIN reloaded
            /\ reloaded[K] = PairValue(call.arg[1])

\* ------------------------------------------------------------------ C27

\* C27: after a successful set with the one pair K=v the map of the lines
\* gives v for K, on every sequence, those with K on more than one line too.
C27_MapReportsSetValue ==
    (/\ call.name = "set_env_vars"
     /\ call.ret.ok
     /\ Len(call.arg) = 1) =>
        LET map == get_env_vars(lines)
            K == PairKey(call.arg[1])
        IN  /\ K \in DOMAIN map
            /\ map[K] = PairValue(call.arg[1])

\* ------------------------------------------------------------------ C28

\* C28 as stated: the Value Decoder inverts the Shell Escaper: decoding the
\* escape of a text gives the text.
C28_DecodeInvertsEscape ==
    call.name = "shell_escape" => parse_value(call.ret) = call.arg

\* s from position i on, with a backslash before every "$", backtick and "!"
RECURSIVE ShellOnlyEscapesKept(_, _)
ShellOnlyEscapesKept(s, i) ==
    IF i > Len(s) THEN << >>
    ELSE (IF s[i] \in {"$", BT, "!"} THEN << BS, s[i] >> ELSE << s[i] >>)
         \o ShellOnlyEscapesKept(s, i + 1)

\* C28 amended: decoding the escape of a text gives the text with a backslash
\* before every "$", backtick and "!", the three escapes of the Shell Escaper
\* that the Value Decoder does not know; it gives the text itself exactly
\* when the text holds none of the three.
C28_DecodeInvertsEscapeButThree ==
    call.name = "shell_escape" =>
        /\ parse_value(call.ret) = ShellOnlyEscapesKept(call.arg, 1)
        /\ (parse_value(call.ret) = call.arg
               <=> \A i \in 1..Len(call.arg) : call.arg[i] \notin {"$", BT, "!"})

\* a backslash, a newline and a single quote come back as they were
C28_Witness ==
    /\ call.name = "shell_escape"
    /\ call.arg = << BS, NL, SQ >>
    /\ call.ret = << DQ, BS, BS, BS, "n", SQ, DQ >>
    /\ parse_value(call.ret) = call.arg

\* ------------------------------------------------------------------ C29

\* C29: unset undoes set for the same key text: after set with the one pair
\* k=v, unset of k gives what unset of k gives on the lines before the set,
\* for every key text k without "=", blanks at its ends included; no line
\* the set made or changed remains.
C29_UnsetUndoesSet ==
    (/\ call.name = "set_env_vars"
     /\ Len(call.arg) = 1
     /\ WellFormed(call.arg[1])) =>
        LET k == GivenKey(call.arg[1]) IN
        unset_env_vars(lines, << k >>) = unset_env_vars(call.pre, << k >>)

\* ------------------------------------------------------------------ C30

\* this step is the call that the step before it was, with the same argument
SameCallAgain(name) ==
    /\ call.name = name
    /\ call.ret.ok
    /\ call'.name = name
    /\ call'.arg = call.arg

\* C30: set and unset are idempotent: a set with well-formed pairs, also two
\* pairs for one key, that follows the same set leaves the lines as they
\* are, and so does an unset that follows the same unset.
C30_SetAndUnsetIdempotent ==
    [][/\ SameCallAgain("set_env_vars") => (call'.ret.ok /\ lines' = lines)
       /\ SameCallAgain("unset_env_vars") => lines' = lines]_vars

\* two pairs for one key, set on lines on which they stand already: the key
\* keeps the value of the second pair
C30_Witness ==
    /\ call.name = "set_env_vars"
    /\ call.arg = << PairAB, PairA >>
    /\ call.pre = << KeyValue(KeyA, << "$" >>), Comment(<< "#", "A" >>), KeyValue(KeyA, << "A" >>) >>
    /\ lines = call.pre

====
